---- MODULE Spec2Model ----
(***************************************************************************)
(* State machine of the App component (src/App.tsx): the eight useState    *)
(* fields, the event handlers, and the two asynchronous collaborators      *)
(* (navigator.geolocation.getCurrentPosition and analyzeImageWithLocation) *)
(* whose callbacks / continuations run later as separate steps.            *)
(***************************************************************************)
EXTENDS Integers, Sequences, FiniteSets, Bags, TLC

VARIABLES view, imageSrc, location, locationError, isLoadingLocation,
          analysisResult, isAnalyzing, error,
          geolocation, pendingLoc, pendingAnalysis,
          last, hist, resultImg, writerOlder, staleWrite

appVars == <<view, imageSrc, location, locationError, isLoadingLocation,
             analysisResult, isAnalyzing, error>>
envVars == <<geolocation, pendingLoc, pendingAnalysis>>
vars == <<view, imageSrc, location, locationError, isLoadingLocation,
          analysisResult, isAnalyzing, error,
          geolocation, pendingLoc, pendingAnalysis,
          last, hist, resultImg, writerOlder, staleWrite>>

(* ---- bounds ---- *)
MaxPendingLoc == 2
MaxPendingAnalysis == 2
MaxHist == 4

(* ---- values ---- *)
NULL == "<null>"
NullLocation == [absent |-> TRUE]
Views == {"home", "camera", "preview", "analysis"}
Images == {"img1", "img2"}
Texts == {"A red bicycle.", "A blue door."}
CameraErrors == {"Camera access denied."}
RejectMessages == {NULL, "", "quota exceeded"}
ErrCodes == 0 .. 4
Fixes == {1, 2}

(* JavaScript truthiness of a string | null | undefined value *)
Falsy(s) == s = NULL \/ s = ""
Truthy(s) == ~Falsy(s)

(* position object handed to the success callback *)
Position(i) ==
  [coords |-> [latitude |-> i, longitude |-> 100 + i, accuracy |-> 5,
               altitude |-> 0]]

(* the Coordinates object built by the success callback *)
ToCoordinates(position) ==
  [latitude  |-> position.coords.latitude,
   longitude |-> position.coords.longitude,
   accuracy  |-> position.coords.accuracy]

LocErrMsg_Swapped(code) ==
  IF code = 1 THEN "Position unavailable."
  ELSE IF code = 2 THEN "Location permission denied."
  ELSE IF code = 3 THEN "Location request timed out."
  ELSE "Unable to retrieve location."

(* message chosen by the geolocation error callback *)
LocErrMsg(code) ==
  IF code = 1 THEN "Location permission denied."
  ELSE IF code = 2 THEN "Position unavailable."
  ELSE IF code = 3 THEN "Location request timed out."
  ELSE "Unable to retrieve location."

UnsupportedMsg == "Geolocation is not supported by your device."

(* err.message || "Analysis failed." *)
AnalysisErrMsg(message) == IF Truthy(message) THEN message ELSE "Analysis failed."

(* one outstanding analyzeImageWithLocation(img, loc) call.  The call is
   told apart by the image it was issued for; the coordinates go to the
   service only, App reads them nowhere after the call, and the text the
   service returns is any element of Texts whatever they were. *)
AnalysisCall(img, loc) == [img |-> img]

(* one pending call c leaves the bag of pending calls *)
Settle(pending, c) == pending (-) SetToBag({c})

(* ---- observation of the run: the last step and the first MaxHist steps;
   resultImg is the image passed to the call whose resolution stored
   analysisResult; writerOlder counts the still pending location requests
   issued before the request whose callback ran last; staleWrite says that
   the last step was the callback of a request issued before that one ---- *)
LocationCallbacks == {"getCurrentPositionSuccess", "getCurrentPositionError"}

Step(op, ui, s, n, k) == [op |-> op, ui |-> ui, s |-> s, n |-> n, k |-> k]
NoStep == Step("init", "", "", 0, 0)
Overflow == <<Step("overflow", "", "", 0, 0)>>

Record(op, ui, s, n, k) ==
  /\ last' = Step(op, ui, s, n, k)
  /\ hist' = IF hist = Overflow \/ Len(hist) >= MaxHist THEN Overflow
             ELSE Append(hist, Step(op, ui, s, n, k))
  /\ op # "analyzeResolved" =>
        resultImg' = IF analysisResult' = NULL THEN NULL ELSE resultImg
  /\ writerOlder' = IF op \in LocationCallbacks THEN k - 1 ELSE writerOlder
  /\ staleWrite' = (op \in LocationCallbacks /\ k <= writerOlder)

Init ==
  /\ view = "home"
  /\ imageSrc = NULL
  /\ location = NullLocation
  /\ locationError = NULL
  /\ isLoadingLocation = FALSE
  /\ analysisResult = NULL
  /\ isAnalyzing = FALSE
  /\ error = NULL
  /\ geolocation \in BOOLEAN
  /\ pendingLoc = 0
  /\ pendingAnalysis = EmptyBag
  /\ last = NoStep
  /\ hist = <<>>
  /\ resultImg = NULL
  /\ writerOlder = 0
  /\ staleWrite = FALSE

(* ---- handlers ---- *)

handleGetLocation ==
  IF ~geolocation
  THEN /\ locationError' = UnsupportedMsg
       /\ UNCHANGED <<view, imageSrc, location, isLoadingLocation,
                      analysisResult, isAnalyzing, error, envVars>>
  ELSE /\ pendingLoc < MaxPendingLoc
       /\ isLoadingLocation' = TRUE
       /\ locationError' = NULL
       /\ error' = NULL
       /\ pendingLoc' = pendingLoc + 1
       /\ UNCHANGED <<view, imageSrc, location, analysisResult, isAnalyzing,
                      geolocation, pendingAnalysis>>

getCurrentPositionSuccess_DropsSuperseded(i, p) ==
  /\ i \in 1 .. pendingLoc
  /\ location' = IF i < pendingLoc THEN location ELSE ToCoordinates(Position(p))
  /\ isLoadingLocation' = FALSE
  /\ pendingLoc' = pendingLoc - 1
  /\ UNCHANGED <<view, imageSrc, locationError, analysisResult, isAnalyzing,
                 error, geolocation, pendingAnalysis>>

getCurrentPositionSuccess_ClearsErrors(i, p) ==
  /\ i \in 1 .. pendingLoc
  /\ location' = ToCoordinates(Position(p))
  /\ locationError' = NULL
  /\ error' = NULL
  /\ isLoadingLocation' = FALSE
  /\ pendingLoc' = pendingLoc - 1
  /\ UNCHANGED <<view, imageSrc, analysisResult, isAnalyzing,
                 geolocation, pendingAnalysis>>

(* success callback of the i-th oldest pending request, delivering position p *)
getCurrentPositionSuccess(i, p) ==
  /\ i \in 1 .. pendingLoc
  /\ location' = ToCoordinates(Position(p))
  /\ isLoadingLocation' = FALSE
  /\ pendingLoc' = pendingLoc - 1
  /\ UNCHANGED <<view, imageSrc, locationError, analysisResult, isAnalyzing,
                 error, geolocation, pendingAnalysis>>

(* error callback of the i-th oldest pending request, with err.code = code *)
getCurrentPositionError(i, code) ==
  /\ i \in 1 .. pendingLoc
  /\ locationError' = LocErrMsg(code)
  /\ error' = LocErrMsg(code)
  /\ isLoadingLocation' = FALSE
  /\ pendingLoc' = pendingLoc - 1
  /\ UNCHANGED <<view, imageSrc, location, analysisResult, isAnalyzing,
                 geolocation, pendingAnalysis>>

handleOpenCamera ==
  /\ error' = NULL
  /\ view' = "camera"
  /\ UNCHANGED <<imageSrc, location, locationError, isLoadingLocation,
                 analysisResult, isAnalyzing, envVars>>

handleCapture_NoImage(src) ==
  /\ view' = "preview"
  /\ UNCHANGED <<imageSrc, location, locationError, isLoadingLocation,
                 analysisResult, isAnalyzing, error, envVars>>

handleCapture(src) ==
  /\ imageSrc' = src
  /\ view' = "preview"
  /\ UNCHANGED <<location, locationError, isLoadingLocation,
                 analysisResult, isAnalyzing, error, envVars>>

handleCameraError_GoesHome(err) ==
  /\ error' = err
  /\ view' = "home"
  /\ UNCHANGED <<imageSrc, location, locationError, isLoadingLocation,
                 analysisResult, isAnalyzing, envVars>>

handleCameraError(err) ==
  /\ error' = err
  /\ UNCHANGED <<view, imageSrc, location, locationError, isLoadingLocation,
                 analysisResult, isAnalyzing, envVars>>

handleRetake_ClearsError ==
  /\ imageSrc' = NULL
  /\ error' = NULL
  /\ view' = "camera"
  /\ UNCHANGED <<location, locationError, isLoadingLocation,
                 analysisResult, isAnalyzing, envVars>>

handleRetake_KeepView ==
  /\ imageSrc' = NULL
  /\ UNCHANGED <<view, location, locationError, isLoadingLocation,
                 analysisResult, isAnalyzing, error, envVars>>

handleRetake ==
  /\ imageSrc' = NULL
  /\ view' = "camera"
  /\ UNCHANGED <<location, locationError, isLoadingLocation,
                 analysisResult, isAnalyzing, error, envVars>>

handleUsePhoto_NoGuard ==
  /\ BagCardinality(pendingAnalysis) < MaxPendingAnalysis
  /\ isAnalyzing' = TRUE
  /\ error' = NULL
  /\ view' = "analysis"
  /\ pendingAnalysis' = pendingAnalysis (+) SetToBag({AnalysisCall(imageSrc, location)})
  /\ UNCHANGED <<imageSrc, location, locationError, isLoadingLocation,
                 analysisResult, geolocation, pendingLoc>>

(* synchronous part of handleUsePhoto, up to the await *)
handleUsePhoto ==
  IF Falsy(imageSrc)
  THEN UNCHANGED <<appVars, envVars>>
  ELSE /\ BagCardinality(pendingAnalysis) < MaxPendingAnalysis
       /\ isAnalyzing' = TRUE
       /\ error' = NULL
       /\ view' = "analysis"
       /\ pendingAnalysis' = pendingAnalysis (+) SetToBag({AnalysisCall(imageSrc, location)})
       /\ UNCHANGED <<imageSrc, location, locationError, isLoadingLocation,
                      analysisResult, geolocation, pendingLoc>>

analyzeResolved_ShowsAnalysis(c, result) ==
  /\ BagIn(c, pendingAnalysis)
  /\ analysisResult' = result
  /\ isAnalyzing' = FALSE
  /\ view' = "analysis"
  /\ pendingAnalysis' = Settle(pendingAnalysis, c)
  /\ UNCHANGED <<imageSrc, location, locationError, isLoadingLocation,
                 error, geolocation, pendingLoc>>

(* continuation of handleUsePhoto: the awaited call c resolved with result *)
analyzeResolved(c, result) ==
  /\ BagIn(c, pendingAnalysis)
  /\ analysisResult' = result
  /\ isAnalyzing' = FALSE
  /\ pendingAnalysis' = Settle(pendingAnalysis, c)
  /\ UNCHANGED <<view, imageSrc, location, locationError, isLoadingLocation,
                 error, geolocation, pendingLoc>>

analyzeRejected_GoesHome(c, message) ==
  /\ BagIn(c, pendingAnalysis)
  /\ error' = AnalysisErrMsg(message)
  /\ isAnalyzing' = FALSE
  /\ view' = "home"
  /\ pendingAnalysis' = Settle(pendingAnalysis, c)
  /\ UNCHANGED <<imageSrc, location, locationError, isLoadingLocation,
                 analysisResult, geolocation, pendingLoc>>

(* continuation of handleUsePhoto: the awaited call c threw err *)
analyzeRejected(c, message) ==
  /\ BagIn(c, pendingAnalysis)
  /\ error' = AnalysisErrMsg(message)
  /\ isAnalyzing' = FALSE
  /\ pendingAnalysis' = Settle(pendingAnalysis, c)
  /\ UNCHANGED <<view, imageSrc, location, locationError, isLoadingLocation,
                 analysisResult, geolocation, pendingLoc>>

handleBackToHome_ClearsLocation ==
  /\ view' = "home"
  /\ error' = NULL
  /\ imageSrc' = NULL
  /\ analysisResult' = NULL
  /\ location' = NullLocation
  /\ locationError' = NULL
  /\ UNCHANGED <<isLoadingLocation, isAnalyzing, envVars>>

handleBackToHome_KeepView ==
  /\ error' = NULL
  /\ imageSrc' = NULL
  /\ analysisResult' = NULL
  /\ UNCHANGED <<view, location, locationError, isLoadingLocation, isAnalyzing,
                 envVars>>

handleBackToHome ==
  /\ view' = "home"
  /\ error' = NULL
  /\ imageSrc' = NULL
  /\ analysisResult' = NULL
  /\ UNCHANGED <<location, locationError, isLoadingLocation, isAnalyzing,
                 envVars>>

HeaderBack_AlwaysHome == handleBackToHome

(* onClick of the Header back button *)
HeaderBack == IF view = "preview" THEN handleRetake ELSE handleBackToHome

(* ---- asynchronous completions (both specifications) ---- *)
LocationSuccess ==
  \E i \in 1 .. pendingLoc, p \in Fixes :
     /\ getCurrentPositionSuccess(i, p)
     /\ Record("getCurrentPositionSuccess", "", "", p, i)

LocationError ==
  \E i \in 1 .. pendingLoc, code \in ErrCodes :
     /\ getCurrentPositionError(i, code)
     /\ Record("getCurrentPositionError", "", "", code, i)

AnalysisResolved ==
  \E c \in BagToSet(pendingAnalysis), t \in Texts :
     /\ analyzeResolved(c, t)
     /\ resultImg' = c.img
     /\ Record("analyzeResolved", "", t, 0, 0)

AnalysisRejected ==
  \E c \in BagToSet(pendingAnalysis), m \in RejectMessages :
     /\ analyzeRejected(c, m)
     /\ Record("analyzeRejected", "", m, 0, 0)

(* ---- user interface: a control acts only on the screen that renders it ---- *)
OpenCameraButton ==
  view = "home" /\ handleOpenCamera /\ Record("handleOpenCamera", "OpenCamera", "", 0, 0)

GetLocationButton ==
  view = "home" /\ handleGetLocation /\ Record("handleGetLocation", "GetLocation", "", 0, 0)

CameraBackButton ==
  view = "camera" /\ handleBackToHome /\ Record("handleBackToHome", "CameraBack", "", 0, 0)

CameraOnCapture ==
  /\ view = "camera"
  /\ \E src \in Images : handleCapture(src) /\ Record("handleCapture", "Camera", src, 0, 0)

CameraOnError ==
  /\ view = "camera"
  /\ \E e \in CameraErrors :
        handleCameraError(e) /\ Record("handleCameraError", "Camera", e, 0, 0)

PreviewBackButton ==
  /\ view = "preview" /\ Truthy(imageSrc)
  /\ HeaderBack /\ Record("HeaderBack", "PreviewBack", "", 0, 0)

RetakeButton ==
  /\ view = "preview" /\ Truthy(imageSrc)
  /\ handleRetake /\ Record("handleRetake", "Retake", "", 0, 0)

UsePhotoButton ==
  /\ view = "preview" /\ Truthy(imageSrc)
  /\ handleUsePhoto /\ Record("handleUsePhoto", "UsePhoto", imageSrc, 0, 0)

AnalysisBackButton ==
  view = "analysis" /\ HeaderBack /\ Record("HeaderBack", "AnalysisBack", "", 0, 0)

DoneButton ==
  view = "analysis" /\ handleBackToHome /\ Record("handleBackToHome", "Done", "", 0, 0)

Next ==
  \/ OpenCameraButton
  \/ GetLocationButton
  \/ CameraBackButton
  \/ CameraOnCapture
  \/ CameraOnError
  \/ PreviewBackButton
  \/ RetakeButton
  \/ UsePhotoButton
  \/ AnalysisBackButton
  \/ DoneButton
  \/ LocationSuccess
  \/ LocationError
  \/ AnalysisResolved
  \/ AnalysisRejected

Spec == Init /\ [][Next]_vars

(* ---- the controller's operations invoked in any state ---- *)
CallGetLocation == handleGetLocation /\ Record("handleGetLocation", "call", "", 0, 0)
CallOpenCamera == handleOpenCamera /\ Record("handleOpenCamera", "call", "", 0, 0)
CallCapture ==
  \E src \in Images : handleCapture(src) /\ Record("handleCapture", "call", src, 0, 0)
CallCameraError ==
  \E e \in CameraErrors : handleCameraError(e) /\ Record("handleCameraError", "call", e, 0, 0)
CallRetake == handleRetake /\ Record("handleRetake", "call", "", 0, 0)
CallUsePhoto == handleUsePhoto /\ Record("handleUsePhoto", "call", imageSrc, 0, 0)
CallBackToHome == handleBackToHome /\ Record("handleBackToHome", "call", "", 0, 0)

NextCtl ==
  \/ CallGetLocation
  \/ CallOpenCamera
  \/ CallCapture
  \/ CallCameraError
  \/ CallRetake
  \/ CallUsePhoto
  \/ CallBackToHome
  \/ LocationSuccess
  \/ LocationError
  \/ AnalysisResolved
  \/ AnalysisRejected

SpecCtl == Init /\ [][NextCtl]_vars

TypeOK ==
  /\ view \in Views
  /\ imageSrc \in Images \cup {NULL}
  /\ analysisResult \in Texts \cup {NULL}
  /\ isAnalyzing \in BOOLEAN
  /\ isLoadingLocation \in BOOLEAN
  /\ pendingLoc \in 0 .. MaxPendingLoc
  /\ BagCardinality(pendingAnalysis) <= MaxPendingAnalysis

(***************************************************************************)
(* Properties                                                              *)
(***************************************************************************)

(* steps of the "capture, use, analyse" scenario, as recorded in hist *)
S_Open == Step("handleOpenCamera", "OpenCamera", "", 0, 0)
S_Capture(img) == Step("handleCapture", "Camera", img, 0, 0)
S_Use(img) == Step("handleUsePhoto", "UsePhoto", img, 0, 0)
S_Resolved(t) == Step("analyzeResolved", "", t, 0, 0)

(* C1: from the initial state, OpenCamera then OnCaptured(img) ends in the
   preview view holding img; a following UsePhoto ends in the analysis view
   with isAnalyzing set; when that call resolves with text t, analysisResult
   is t and isAnalyzing is cleared. *)
C1_Scenario ==
  \A img \in Images, t \in Texts :
    /\ hist = <<S_Open, S_Capture(img)>>
         => view = "preview" /\ imageSrc = img
    /\ hist = <<S_Open, S_Capture(img), S_Use(img)>>
         => view = "analysis" /\ isAnalyzing
    /\ hist = <<S_Open, S_Capture(img), S_Use(img), S_Resolved(t)>>
         => analysisResult = t /\ ~isAnalyzing

C1_Witness ==
  /\ hist = <<S_Open, S_Capture("img1"), S_Use("img1"), S_Resolved("A red bicycle.")>>
  /\ analysisResult = "A red bicycle."
  /\ view = "analysis"

(* C2 (as claimed): every step in which an analysis call fails takes
   isAnalyzing from true to false, leaves analysisResult absent and error
   non-absent. *)
C2_FailureStep ==
  [][AnalysisRejected =>
       /\ isAnalyzing /\ ~isAnalyzing'
       /\ analysisResult' = NULL
       /\ error' # NULL]_vars

(* C3 (as claimed): every step in which an analysis call resolves takes
   isAnalyzing from true to false and stores the returned text as a
   non-absent analysisResult. *)
C3_SuccessStep ==
  [][AnalysisResolved =>
       /\ isAnalyzing /\ ~isAnalyzing'
       /\ analysisResult' # NULL
       /\ analysisResult' = last'.s]_vars

(* C4: whenever the view is preview or analysis, the image reference is
   present. *)
C4_ImagePresent ==
  view \in {"preview", "analysis"} => imageSrc # NULL

C4_Witness ==
  /\ view = "analysis"
  /\ imageSrc = "img2"
  /\ last.op = "analyzeResolved"
  /\ pendingLoc > 0

(* C5 (as claimed): whenever isAnalyzing is true, analysisResult is absent. *)
C5_NotBothSet ==
  isAnalyzing => analysisResult = NULL

(* C6 (as claimed): right after a location success callback the fix is
   stored and both locationError and error are absent. *)
C6_SuccessClearsErrors ==
  [][LocationSuccess =>
       /\ location' = ToCoordinates(Position(last'.n))
       /\ locationError' = NULL
       /\ error' = NULL]_vars

(* C6 (amended): a location success callback stores the fix and leaves
   locationError and error as they were; both are cleared by the step that
   issues the request. *)
C6_SuccessKeepsErrors ==
  [][/\ LocationSuccess =>
          /\ location' = ToCoordinates(Position(last'.n))
          /\ locationError' = locationError
          /\ error' = error
     /\ (GetLocationButton /\ geolocation) =>
          /\ locationError' = NULL
          /\ error' = NULL]_vars

C6_Witness ==
  /\ last.op = "getCurrentPositionSuccess"
  /\ location = ToCoordinates(Position(last.n))
  /\ error = "Camera access denied."
  /\ locationError = NULL

(* C7 (as claimed): every step that stores a location failure message in
   locationError stores the same message in error, the unsupported-device
   branch included. *)
C7_LocationErrorMirrored ==
  [][(/\ last'.op \in {"handleGetLocation", "getCurrentPositionError"}
      /\ locationError' # NULL)
       => error' = locationError']_vars

(* C8: a failed acquisition stores, as both locationError and error, the
   message fixed by the platform error code: 1 permission denied, 2 position
   unavailable, 3 timed out, anything else the generic message. *)
C8_ErrorCodeMessage ==
  [][LocationError =>
       /\ locationError' = error'
       /\ (last'.n = 1 => error' = "Location permission denied.")
       /\ (last'.n = 2 => error' = "Position unavailable.")
       /\ (last'.n = 3 => error' = "Location request timed out.")
       /\ (last'.n \notin {1, 2, 3} => error' = "Unable to retrieve location.")]_vars

C8_Witness ==
  /\ last.op = "getCurrentPositionError"
  /\ last.n = 1
  /\ locationError = "Location permission denied."
  /\ error = "Location permission denied."

(* C9: UsePhoto invoked while no image is present changes no field of the
   state and issues no analysis call. *)
C9_UsePhotoNoop ==
  [][(CallUsePhoto /\ Falsy(imageSrc)) => UNCHANGED <<appVars, envVars>>]_vars

C9_Witness ==
  /\ last = Step("handleUsePhoto", "call", NULL, 0, 0)
  /\ view = "camera"
  /\ ~isAnalyzing
  /\ pendingAnalysis = EmptyBag

(* C10: BackToHome leaves view = home with error, imageSrc and
   analysisResult absent, and location and locationError as they were. *)
C10_BackToHome ==
  [][CallBackToHome =>
       /\ view' = "home"
       /\ error' = NULL
       /\ imageSrc' = NULL
       /\ analysisResult' = NULL
       /\ location' = location
       /\ locationError' = locationError]_vars

C10_Witness ==
  /\ last.op = "handleBackToHome"
  /\ view = "home"
  /\ imageSrc = NULL
  /\ location # NullLocation
  /\ locationError # NULL

(* a step from view a to view b made through control c *)
ViewStep(a, b, c) == view = a /\ view' = b /\ last'.ui \in c

(* C11: every step that changes the view is home->camera (OpenCamera),
   camera->preview (OnCaptured), preview->camera (Retake), preview->analysis
   (UsePhoto), analysis->home (BackToHome / Done), camera->home (back) or
   preview->home (back); no asynchronous completion changes the view. *)
C11_ViewTransitions ==
  [][view' # view =>
       \/ ViewStep("home", "camera", {"OpenCamera"}) /\ last'.op = "handleOpenCamera"
       \/ ViewStep("camera", "preview", {"Camera"}) /\ last'.op = "handleCapture"
       \/ ViewStep("preview", "camera", {"Retake", "PreviewBack"})
       \/ ViewStep("preview", "analysis", {"UsePhoto"}) /\ last'.op = "handleUsePhoto"
       \/ ViewStep("analysis", "home", {"Done", "AnalysisBack"})
       \/ ViewStep("camera", "home", {"CameraBack"})
       \/ ViewStep("preview", "home", {"PreviewBack"})]_vars

C11_Witness ==
  /\ last.ui = "CameraBack"
  /\ view = "home"
  /\ BagCardinality(pendingAnalysis) > 0
  /\ pendingLoc > 0

(* the controls of the user interface *)
UserAction ==
  \/ OpenCameraButton \/ GetLocationButton
  \/ CameraBackButton \/ CameraOnCapture \/ CameraOnError
  \/ PreviewBackButton \/ RetakeButton \/ UsePhotoButton
  \/ AnalysisBackButton \/ DoneButton

(* C12: no state is terminal: in every reachable state a user action is
   enabled, and user actions lead back to home from every view: the back
   control of the camera and the Done control of the analysis screen are
   enabled and go to home, Retake is enabled on the preview and goes to the
   camera. *)
C12_NoTerminalState ==
  /\ [](ENABLED UserAction)
  /\ [](view = "camera" => ENABLED CameraBackButton)
  /\ [](view = "analysis" => ENABLED DoneButton)
  /\ [](view = "preview" => ENABLED RetakeButton)
  /\ [][CameraBackButton => view' = "home"]_vars
  /\ [][DoneButton => view' = "home"]_vars
  /\ [][RetakeButton => view' = "camera"]_vars

C12_Witness ==
  /\ view = "preview"
  /\ BagCardinality(pendingAnalysis) = MaxPendingAnalysis
  /\ pendingLoc = MaxPendingLoc
  /\ ENABLED RetakeButton

(* C13: Retake leaves imageSrc absent and view = camera and changes no
   other field. *)
C13_Retake ==
  [][CallRetake =>
       /\ imageSrc' = NULL
       /\ view' = "camera"
       /\ UNCHANGED <<location, locationError, error, analysisResult,
                      isAnalyzing, isLoadingLocation, envVars>>]_vars

C13_Witness ==
  /\ last.op = "handleRetake"
  /\ view = "camera"
  /\ imageSrc = NULL
  /\ error # NULL
  /\ analysisResult # NULL
  /\ isAnalyzing

(* C14: OnCameraError(message) stores the message as the general error,
   leaves the view on the camera screen and changes no other field. *)
C14_CameraError ==
  [][CameraOnError =>
       /\ error' = last'.s
       /\ error' \in CameraErrors
       /\ view = "camera" /\ view' = "camera"
       /\ UNCHANGED <<imageSrc, location, locationError, analysisResult,
                      isAnalyzing, isLoadingLocation, envVars>>]_vars

C14_Witness ==
  /\ last.op = "handleCameraError"
  /\ error = "Camera access denied."
  /\ view = "camera"
  /\ location # NullLocation

(* C15: the back control of the preview screen acts exactly as Retake and
   not as BackToHome; the back control of the analysis screen acts exactly
   as BackToHome. *)
C15_BackControls ==
  [][/\ PreviewBackButton =>
          /\ handleRetake /\ ~handleBackToHome
          /\ imageSrc' = NULL /\ view' = "camera"
          /\ UNCHANGED <<error, analysisResult>>
     /\ AnalysisBackButton =>
          /\ handleBackToHome /\ ~handleRetake
          /\ view' = "home" /\ imageSrc' = NULL
          /\ error' = NULL /\ analysisResult' = NULL]_vars

C15_Witness ==
  /\ last.ui = "PreviewBack"
  /\ view = "camera"
  /\ imageSrc = NULL
  /\ error # NULL

(* C16: the stored coordinates and location error are those of whichever
   resolution arrived last, whatever the order in which the requests were
   issued: every success callback stores its fix and every error callback
   its message, also when the request is older than the one that wrote
   before, and nothing else writes the coordinates. *)
C16_LastResolutionWins ==
  [][/\ LocationSuccess =>
          /\ location' = ToCoordinates(Position(last'.n))
          /\ locationError' = locationError
     /\ LocationError =>
          /\ locationError' = LocErrMsg(last'.n)
          /\ location' = location
     /\ location' # location => LocationSuccess]_vars

(* two requests; the later one resolves with fix 2, then the earlier one
   resolves with fix 1 and overwrites it *)
C16_Witness ==
  /\ hist = <<Step("handleGetLocation", "call", "", 0, 0),
              Step("handleGetLocation", "call", "", 0, 0),
              Step("getCurrentPositionSuccess", "", "", 2, 2),
              Step("getCurrentPositionSuccess", "", "", 1, 1)>>
  /\ staleWrite
  /\ location = ToCoordinates(Position(1))

(* C17 (as claimed): isAnalyzing is true exactly when at least one analysis
   call has not yet resolved or failed. *)
C17_FlagTracksPending ==
  isAnalyzing <=> BagCardinality(pendingAnalysis) > 0

(* C18 (as claimed): whenever analysisResult is present, imageSrc is present
   and the result was produced by the call issued for the image now held. *)
C18_ResultMatchesImage ==
  analysisResult # NULL => imageSrc # NULL /\ resultImg = imageSrc

(* an asynchronous completion *)
Completion ==
  LocationSuccess \/ LocationError \/ AnalysisResolved \/ AnalysisRejected

(* C19: no asynchronous completion (location success or failure, analysis
   success or failure) changes the view or the image reference. *)
C19_CompletionKeepsScreen ==
  [][Completion => view' = view /\ imageSrc' = imageSrc]_vars

C19_Witness ==
  /\ last.op = "analyzeResolved"
  /\ view = "preview"
  /\ imageSrc = "img2"
  /\ resultImg = "img1"
  /\ pendingLoc > 0
====
